---- MODULE Spec2Model ----
(***************************************************************************)
(* Ledger engine of the Wealthy personal-finance app (src/PFA_app.py):     *)
(* accounts, the transaction log, standing orders and the auto-split       *)
(* policy, as mutated by the Accounts page and the Transactions page.      *)
(*                                                                         *)
(* Streamlit reruns the whole script on every click; a run of the          *)
(* Transactions page loads the stores, executes the due standing orders    *)
(* (one loop iteration per order) and then runs the handler of the one     *)
(* button that was clicked.  pc is the position inside that run.           *)
(*                                                                         *)
(* Spec is the Transactions page together with account creation, the      *)
(* auto-split setup and the Dashboard; SpecAccounts is the Accounts page   *)
(* (create, edit, delete, reset allocations, transfer); SpecGoals is the   *)
(* Goals page and the streak / badge / nudge engine the Dashboard runs;    *)
(* SpecAllocation is the Goals page without its edit buttons; SpecSplit    *)
(* is the auto-split policy over accounts that are renamed and deleted;    *)
(* SpecPersist takes the delete handler of the Transactions page file      *)
(* write by file write, with the process stopping in between; SpecSimple   *)
(* applies the two single-account helpers.                                 *)
(*                                                                         *)
(* Money is modelled as exact rationals [n, d] in lowest terms: sums,      *)
(* differences, products and quotients are computed exactly.  Dates are    *)
(* day numbers.                                                            *)
(***************************************************************************)
EXTENDS Integers, Sequences, FiniteSets, TLC

\* ---------------------------------------------------------------- bounds
MaxAccounts == 2
MaxTx == 2
MaxOrders == 2
MaxDay == 10
MaxSteps == 4
MaxGoals == 2
GoalDays == 2

AccountNames == {"X", "Y"}
InitialBalances == {50}
AmountSet == {100}
RatioValues == {0, 30, 70, 90}
DaySteps == {10}
StartOffsets == {0, 1}
GoalNames == {"G", "H"}
TargetSet == {100}
EditTargets == {100, 200}
AmountTexts ==
    {<<"3", "0", ",", "0">>, <<"1", "0", "0">>, <<"0">>, <<"-", "3", "0">>,
     <<"a", "b", "c">>}
GoalDaySteps == {1, 2}
EditBalances == {0, 100}
EditAllocations == {0, 10}
TransferAmounts == {0, 50, 100}

\* ------------------------------------------------------- program constants
AutoSplitAccount == "Auto-Split"
NoAccount == "None"
StandingPrefix == "(Standing) "
WeeklyDays == 7
MonthlyDays == 30
StreakBadgeDays == 7
MonthBadgeDays == 30
TrifectaGoals == 3
InactivityDays == 7
Milestones == <<25, 50, 75, 100>>
UntitledGoal == "Untitled Goal"
NoAccountsAvailable == "No accounts available"

\* ------------------------------------------------------- exact arithmetic
Abs(i) == IF i < 0 THEN -i ELSE i

RECURSIVE GCD(_, _)
GCD(a, b) == IF b = 0 THEN a ELSE GCD(b, a % b)

\* the rational n/d (d > 0) in lowest terms
Q(n, d) == LET g == GCD(Abs(n), d) IN [n |-> n \div g, d |-> d \div g]
R(i) == [n |-> i, d |-> 1]
QAdd(a, b) == Q(a.n * b.d + b.n * a.d, a.d * b.d)
QSub(a, b) == Q(a.n * b.d - b.n * a.d, a.d * b.d)
QMul(a, b) == Q(a.n * b.n, a.d * b.d)
\* a / b for b > 0
QDiv(a, b) == Q(a.n * b.d, a.d * b.n)
QLt(a, b) == a.n * b.d < b.n * a.d
QGe(a, b) == ~QLt(a, b)
QMax(a, b) == IF QLt(a, b) THEN b ELSE a

\* ------------------------------------------------------------------ state
VARIABLES
    today,            \* date.today()
    accounts,         \* accounts.json: list of {name, balance, allocated}
    transactions,     \* transactions.json: list of transaction records
    standing_orders,  \* standing_orders.json
    auto_split,       \* auto_split.json: {enabled, ratios}
    pc,               \* position in the current script run
    steps,            \* commands issued so far (bounded by MaxSteps)
    so_idx,           \* index of the standing-order loop
    executed_orders,  \* local flag of the standing-order loop
    tick0,            \* history: the log length and the orders at page load
    created,          \* history: the last transaction created and the accounts before it
    ev,               \* history: what the last step did
    simple_pc,        \* position of the apply/revert harness
    simple_tx,        \* the transaction handed to apply/revert
    simple_ret,       \* the (ok, message) the last call returned
    simple_before,    \* the accounts before apply_transaction_simple
    goals,            \* goals.json: list of goal records
    badges,           \* badges.json: badge id -> {title, description, awarded_at}
    xfer,             \* history: the inputs of the last transfer form submitted
    contrib,          \* history: the text typed into "Add contribution", its parse, and
                      \* (run) how many contributions of 30 in a row a new goal has had
    mem,              \* the lists a delete handler holds while it saves them, and the
                      \* stores as they were when it began
    materialized      \* history: per standing order, the day it was last materialized

vars == <<today, accounts, transactions, standing_orders, auto_split, pc, steps,
          so_idx, executed_orders, tick0, created, ev,
          simple_pc, simple_tx, simple_ret, simple_before, goals, badges, xfer, contrib,
          mem, materialized>>

goal_vars == <<goals, badges, contrib>>

hist_vars == <<mem, materialized>>

simple_vars == <<simple_pc, simple_tx, simple_ret, simple_before>>

\* ---------------------------------------------------------------- helpers
\* next((k for a in accs if a["name"] == name), None): 0 when there is none
IndexOf(accs, name) ==
    IF \E k \in 1..Len(accs) : accs[k].name = name
    THEN CHOOSE k \in 1..Len(accs) :
            accs[k].name = name /\ \A j \in 1..(k - 1) : accs[j].name # name
    ELSE 0

NamesOf(accs) == {accs[k].name : k \in 1..Len(accs)}

\* ratios.get(name, 0)
RatioGet(ratios, name) == IF name \in DOMAIN ratios THEN ratios[name] ELSE 0

RECURSIVE SumOver(_, _)
SumOver(f, S) ==
    IF S = {} THEN 0 ELSE LET x == CHOOSE x \in S : TRUE IN f[x] + SumOver(f, S \ {x})

\* sum(ratios.values())
TotalRatio(ratios) == SumOver(ratios, DOMAIN ratios)

\* pop(i) of a list, i counted from 1
RemoveAt(s, i) == [k \in 1..(Len(s) - 1) |-> IF k < i THEN s[k] ELSE s[k + 1]]

\* a date or None: <<d>> or <<>>
NoDate == <<>>
DateOf(d) == <<d>>

NoRatios == [n \in {} |-> 0]
NoMem == [valid |-> FALSE, accounts |-> <<>>, transactions |-> <<>>,
          old_accounts |-> <<>>, old_transactions |-> <<>>]
NoBadges == [b \in {} |-> 0]
NoRun == [idx |-> 0, n |-> 0]
NoTransfer == [from_acc |-> NoAccount, to_acc |-> NoAccount, amount |-> R(0)]
NoContrib ==
    [text |-> <<>>, ok |-> FALSE, amount |-> R(0), new_milestones |-> <<>>, run |-> NoRun]
Ev(op, outcome, idx) ==
    [op |-> op, outcome |-> outcome, idx |-> idx, arg |-> "", nudges |-> <<>>]
NoTick == [ntx |-> 0, orders |-> <<>>]
NoCreated == [valid |-> FALSE, idx |-> 0, before |-> <<>>]
NoRet == [ok |-> TRUE, msg |-> ""]
NoTx == [type |-> "Expense", amount |-> R(0), account |-> NoAccount]

\* ------------------------------------------- apply / revert (single account)
apply_transaction_simple_strict(tx, accs) ==
    LET k == IndexOf(accs, tx.account) IN
    IF k = 0 THEN [ok |-> FALSE, msg |-> "not found", accounts |-> accs]
    ELSE IF tx.type = "Income"
    THEN [ok |-> TRUE, msg |-> "applied",
          accounts |-> [accs EXCEPT ![k].balance = QAdd(@, tx.amount)]]
    ELSE IF ~QLt(tx.amount, accs[k].balance)
    THEN [ok |-> FALSE, msg |-> "insufficient", accounts |-> accs]
    ELSE [ok |-> TRUE, msg |-> "applied",
          accounts |-> [accs EXCEPT ![k].balance = QSub(@, tx.amount)]]

apply_transaction_simple(tx, accs) ==
    LET k == IndexOf(accs, tx.account) IN
    IF k = 0 THEN [ok |-> FALSE, msg |-> "not found", accounts |-> accs]
    ELSE IF tx.type = "Income"
    THEN [ok |-> TRUE, msg |-> "applied",
          accounts |-> [accs EXCEPT ![k].balance = QAdd(@, tx.amount)]]
    ELSE IF QLt(accs[k].balance, tx.amount)
    THEN [ok |-> FALSE, msg |-> "insufficient", accounts |-> accs]
    ELSE [ok |-> TRUE, msg |-> "applied",
          accounts |-> [accs EXCEPT ![k].balance = QSub(@, tx.amount)]]

revert_transaction_simple_same_sign(tx, accs) ==
    LET k == IndexOf(accs, tx.account) IN
    IF k = 0 THEN [ok |-> FALSE, msg |-> "not found", accounts |-> accs]
    ELSE IF tx.type = "Income"
    THEN [ok |-> TRUE, msg |-> "reverted",
          accounts |-> [accs EXCEPT ![k].balance = QAdd(@, tx.amount)]]
    ELSE [ok |-> TRUE, msg |-> "reverted",
          accounts |-> [accs EXCEPT ![k].balance = QSub(@, tx.amount)]]

revert_transaction_simple(tx, accs) ==
    LET k == IndexOf(accs, tx.account) IN
    IF k = 0 THEN [ok |-> FALSE, msg |-> "not found", accounts |-> accs]
    ELSE IF tx.type = "Income"
    THEN [ok |-> TRUE, msg |-> "reverted",
          accounts |-> [accs EXCEPT ![k].balance = QSub(@, tx.amount)]]
    ELSE [ok |-> TRUE, msg |-> "reverted",
          accounts |-> [accs EXCEPT ![k].balance = QAdd(@, tx.amount)]]

\* ------------------------------------------------------ auto-split policy
\* for acc in accounts: acc["balance"] += amount * (ratios.get(name, 0) / total_ratio)
AutoSplitCredit_unnormalised(accs, ratios, amount) ==
    [k \in 1..Len(accs) |->
        [accs[k] EXCEPT !.balance =
            QAdd(@, QMul(amount, QDiv(R(RatioGet(ratios, accs[k].name)), R(100))))]]

AutoSplitCredit(accs, ratios, amount) ==
    [k \in 1..Len(accs) |->
        [accs[k] EXCEPT !.balance =
            QAdd(@, QMul(amount, QDiv(R(RatioGet(ratios, accs[k].name)),
                                      R(TotalRatio(ratios)))))]]

\* for acc in accounts: acc["balance"] -= amt * (ratios.get(name, 0) / total_ratio)
AutoSplitDebit(accs, ratios, amount) ==
    [k \in 1..Len(accs) |->
        [accs[k] EXCEPT !.balance =
            QSub(@, QMul(amount, QDiv(R(RatioGet(ratios, accs[k].name)),
                                      R(TotalRatio(ratios)))))]]

\* for acc in accounts: if acc["name"] == name: acc["balance"] += amount; break
CreditFirst(accs, name, amount) ==
    LET k == IndexOf(accs, name) IN
    IF k = 0 THEN accs ELSE [accs EXCEPT ![k].balance = QAdd(@, amount)]

DebitFirst(accs, name, amount) ==
    LET k == IndexOf(accs, name) IN
    IF k = 0 THEN accs ELSE [accs EXCEPT ![k].balance = QSub(@, amount)]

\* ... if acc["balance"] >= amount: acc["balance"] -= amount; break
DebitFirstIfCovered(accs, name, amount) ==
    LET k == IndexOf(accs, name) IN
    IF k # 0 /\ QGe(accs[k].balance, amount)
    THEN [accs EXCEPT ![k].balance = QSub(@, amount)]
    ELSE accs

\* ------------------------------------------------------------ Accounts page
CreateAccount ==
    /\ pc = "idle"
    /\ steps < MaxSteps
    /\ steps' = steps + 1
    /\ Len(accounts) < MaxAccounts
    /\ \E new_name \in AccountNames, new_balance \in InitialBalances :
        accounts' = Append(accounts,
            [name |-> new_name, balance |-> R(new_balance), allocated |-> R(0)])
    /\ created' = NoCreated
    /\ ev' = Ev("create_account", "", Len(accounts) + 1)
    /\ UNCHANGED <<today, transactions, standing_orders, auto_split, pc,
                   so_idx, executed_orders, tick0, simple_vars, goal_vars, xfer, hist_vars>>

\* "Save Auto-Split" (enabled False) and "Save & Use as Default" (enabled True)
SaveAutoSplit ==
    /\ pc = "idle"
    /\ steps < MaxSteps
    /\ steps' = steps + 1
    /\ accounts # <<>>
    /\ \E enabled \in BOOLEAN, ratios \in [NamesOf(accounts) -> RatioValues] :
        auto_split' = [enabled |-> enabled, ratios |-> ratios]
    /\ created' = NoCreated
    /\ ev' = Ev("save_auto_split", "", 0)
    /\ UNCHANGED <<today, accounts, transactions, standing_orders, pc,
                   so_idx, executed_orders, tick0, simple_vars, goal_vars, xfer, hist_vars>>

\* -------------------------------------------------------------- the clock
AdvanceDay ==
    /\ pc = "idle"
    /\ \E d \in DaySteps : today + d <= MaxDay /\ today' = today + d
    /\ ev' = Ev("day", "", 0)
    /\ UNCHANGED <<accounts, transactions, standing_orders, auto_split, pc, steps,
                   so_idx, executed_orders, tick0, created, simple_vars, goal_vars, xfer, hist_vars>>

\* ------------------------------------------- Transactions page: page load
IsDue(order, day) == order.next_execution <= day

FreqDays(order) == IF order.frequency = "Weekly" THEN WeeklyDays ELSE MonthlyDays

DueCount(orders, day) == Cardinality({k \in 1..Len(orders) : IsDue(orders[k], day)})

\* The widget values a handler reads.  They are fixed when the run starts, but
\* nothing reads them before the handler does, so the handler draws them.

\* use_auto is offered for Income only; the account selectbox is shown unless
\* use_auto is ticked, and has a value exactly when there are accounts
FormConsistent(c) ==
    /\ c.use_auto => c.tx_type = "Income"
    /\ c.selected_account = NoAccount <=> (c.use_auto \/ accounts = <<>>)

SaveTxClicks ==
    {c \in [tx_type : {"Income", "Expense"}, amount : {R(a) : a \in AmountSet},
            use_auto : BOOLEAN, selected_account : NamesOf(accounts) \cup {NoAccount},
            frequency : {"Weekly"}, start : {0}] : FormConsistent(c)}

SaveSoClicks ==
    {c \in [tx_type : {"Income", "Expense"}, amount : {R(a) : a \in AmountSet},
            use_auto : BOOLEAN, selected_account : NamesOf(accounts) \cup {NoAccount},
            frequency : {"Weekly", "Monthly"}, start : {today + o : o \in StartOffsets}] :
        FormConsistent(c)}

TransactionsPageLoad ==
    /\ pc = "idle"
    /\ steps < MaxSteps
    /\ steps' = steps + 1
    /\ Len(transactions) + DueCount(standing_orders, today) <= MaxTx
    /\ pc' = "run"
    /\ so_idx' = 1
    /\ executed_orders' = FALSE
    /\ tick0' = [ntx |-> Len(transactions), orders |-> standing_orders]
    /\ ev' = Ev("load", "", 0)
    /\ UNCHANGED <<today, accounts, transactions, standing_orders, auto_split,
                   created, simple_vars, goal_vars, xfer, hist_vars>>

\* --------------------------------- Transactions page: due standing orders
OrderEffect_overdraw(order, accs, auto) ==
    IF order.type = "Income"
    THEN IF order.use_auto /\ auto.enabled
         THEN IF TotalRatio(auto.ratios) > 0
              THEN AutoSplitCredit(accs, auto.ratios, order.amount)
              ELSE accs
         ELSE CreditFirst(accs, order.account, order.amount)
    ELSE DebitFirst(accs, order.account, order.amount)

\* the balance effect of one due order
OrderEffect(order, accs, auto) ==
    IF order.type = "Income"
    THEN IF order.use_auto /\ auto.enabled
         THEN IF TotalRatio(auto.ratios) > 0
              THEN AutoSplitCredit(accs, auto.ratios, order.amount)
              ELSE accs
         ELSE CreditFirst(accs, order.account, order.amount)
    ELSE DebitFirstIfCovered(accs, order.account, order.amount)

OrderOutcome(order, accs, auto) ==
    IF order.type = "Income"
    THEN IF order.use_auto /\ auto.enabled
         THEN IF TotalRatio(auto.ratios) > 0 THEN "so_income_split" ELSE "so_income_split_zero"
         ELSE IF IndexOf(accs, order.account) # 0 THEN "so_income" ELSE "so_income_nothing"
    ELSE IF IndexOf(accs, order.account) = 0 THEN "so_expense_nothing"
         ELSE IF QGe(accs[IndexOf(accs, order.account)].balance, order.amount)
              THEN "so_expense" ELSE "so_expense_insufficient"

\* the transaction a due order logs
OrderTx(order, day) ==
    [type |-> order.type, amount |-> order.amount, note |-> StandingPrefix,
     timestamp |-> day,
     account |-> IF ~order.use_auto THEN order.account ELSE AutoSplitAccount]

OrderLog_only_if_applied(order, accs, txs, day) ==
    IF order.type = "Expense" /\ DebitFirstIfCovered(accs, order.account, order.amount) = accs
    THEN txs
    ELSE Append(txs, OrderTx(order, day))

OrderLog(order, accs, txs, day) == Append(txs, OrderTx(order, day))

NextExecution_same_day(order, day) == day

\* (today + timedelta(days=freq_days)).isoformat()
NextExecution(order, day) == day + FreqDays(order)

ExecuteStandingOrder ==
    /\ pc = "run"
    /\ so_idx <= Len(standing_orders)
    /\ LET order == standing_orders[so_idx] IN
        IF IsDue(order, today)
        THEN /\ accounts' = OrderEffect(order, accounts, auto_split)
             /\ transactions' = OrderLog(order, accounts, transactions, today)
             /\ standing_orders' =
                    [standing_orders EXCEPT ![so_idx].next_execution = NextExecution(order, today)]
             /\ executed_orders' = TRUE
             /\ materialized' = [materialized EXCEPT ![so_idx] = DateOf(today)]
             /\ created' = [valid |-> TRUE, idx |-> Len(transactions) + 1, before |-> accounts]
             /\ ev' = Ev("so", OrderOutcome(order, accounts, auto_split), so_idx)
        ELSE /\ ev' = Ev("so", "so_not_due", so_idx)
             /\ UNCHANGED <<accounts, transactions, standing_orders, executed_orders, created,
                            materialized>>
    /\ so_idx' = so_idx + 1
    /\ UNCHANGED <<today, auto_split, pc, steps, tick0, simple_vars, goal_vars, xfer, mem>>

\* the loop is over: the stores are saved and the page's forms run
AtForm == pc = "run" /\ so_idx > Len(standing_orders)

EndRun ==
    /\ pc' = "idle"
    /\ steps' = steps
    /\ so_idx' = 0
    /\ executed_orders' = FALSE
    /\ tick0' = NoTick

\* ------------------------------------ Transactions page: Save Transaction
SaveEffect(c, accs, auto) ==
    IF c.tx_type = "Income"
    THEN IF c.use_auto /\ auto.enabled
         THEN IF TotalRatio(auto.ratios) > 0
              THEN AutoSplitCredit(accs, auto.ratios, c.amount)
              ELSE accs
         ELSE IF c.selected_account # NoAccount
              THEN CreditFirst(accs, c.selected_account, c.amount)
              ELSE accs
    ELSE IF c.selected_account # NoAccount
         THEN DebitFirstIfCovered(accs, c.selected_account, c.amount)
         ELSE accs

\* which branch ran: the "_rejected" ones are those that call st.error
SaveOutcome(c, accs, auto) ==
    IF c.tx_type = "Income"
    THEN IF c.use_auto /\ auto.enabled
         THEN IF TotalRatio(auto.ratios) > 0 THEN "tx_income_split" ELSE "tx_split_rejected"
         ELSE IF c.selected_account # NoAccount THEN "tx_income" ELSE "tx_income_nothing"
    ELSE IF c.selected_account = NoAccount \/ IndexOf(accs, c.selected_account) = 0
         THEN "tx_expense_nothing"
         ELSE IF QGe(accs[IndexOf(accs, c.selected_account)].balance, c.amount)
              THEN "tx_expense" ELSE "tx_expense_rejected"

SaveTx(c, day) ==
    [type |-> c.tx_type, amount |-> c.amount, note |-> "", timestamp |-> day,
     account |-> IF ~c.use_auto THEN c.selected_account ELSE AutoSplitAccount]

SaveLog_newest_first(c, txs, day) == <<SaveTx(c, day)>> \o txs

SaveLog(c, txs, day) == Append(txs, SaveTx(c, day))

SaveTransaction ==
    /\ AtForm
    /\ Len(transactions) < MaxTx
    /\ \E c \in SaveTxClicks :
        /\ accounts' = SaveEffect(c, accounts, auto_split)
        /\ transactions' = SaveLog(c, transactions, today)
        /\ ev' = Ev("save_tx", SaveOutcome(c, accounts, auto_split), Len(transactions) + 1)
    /\ created' = [valid |-> TRUE, idx |-> Len(transactions) + 1, before |-> accounts]
    /\ EndRun
    /\ UNCHANGED <<today, standing_orders, auto_split, simple_vars, goal_vars, xfer, hist_vars>>

\* --------------------------------- Transactions page: Save Standing Order
NewOrder(c) ==
    [type |-> c.tx_type, amount |-> c.amount, note |-> "", frequency |-> c.frequency,
     next_execution |-> c.start,
     account |-> IF ~c.use_auto THEN c.selected_account ELSE AutoSplitAccount,
     use_auto |-> c.use_auto]

SaveStandingOrder ==
    /\ AtForm
    /\ Len(standing_orders) < MaxOrders
    /\ \E c \in SaveSoClicks : standing_orders' = Append(standing_orders, NewOrder(c))
    /\ materialized' = Append(materialized, NoDate)
    /\ ev' = Ev("save_so", "", Len(standing_orders) + 1)
    /\ EndRun
    /\ UNCHANGED <<today, accounts, transactions, auto_split, created, simple_vars, goal_vars,
                   xfer, mem>>

\* --------------------------------- Transactions page: delete a transaction
\* form_type is tx_type, the value of the Add Transaction form's Type selectbox
DeleteEffect_ignore_enabled(row, form_type, accs, auto) ==
    IF row.account = AutoSplitAccount
    THEN IF TotalRatio(auto.ratios) > 0
         THEN AutoSplitDebit(accs, auto.ratios, row.amount)
         ELSE accs
    ELSE IF IndexOf(accs, row.account) # 0
         THEN IF form_type = "Income"
              THEN DebitFirst(accs, row.account, row.amount)
              ELSE CreditFirst(accs, row.account, row.amount)
         ELSE accs

DeleteEffect(row, form_type, accs, auto) ==
    IF row.account = AutoSplitAccount
    THEN LET ratios == IF auto.enabled THEN auto.ratios ELSE NoRatios
             total_ratio == IF DOMAIN ratios # {} THEN TotalRatio(ratios) ELSE 0
         IN IF total_ratio > 0 THEN AutoSplitDebit(accs, ratios, row.amount) ELSE accs
    ELSE IF IndexOf(accs, row.account) # 0
         THEN IF form_type = "Income"
              THEN DebitFirst(accs, row.account, row.amount)
              ELSE CreditFirst(accs, row.account, row.amount)
         ELSE accs

DeleteOutcome(row, auto, accs) ==
    IF row.account = AutoSplitAccount
    THEN IF auto.enabled /\ TotalRatio(auto.ratios) > 0 THEN "del_split" ELSE "del_split_nothing"
    ELSE IF IndexOf(accs, row.account) # 0 THEN "del_single" ELSE "del_single_nothing"

DeleteTransaction ==
    /\ AtForm
    \* the row's button was on the page before this run: i is in the log as loaded
    /\ \E i \in 1..tick0.ntx, tx_type \in {"Income", "Expense"} :
        LET row == transactions[i] IN
        /\ accounts' = DeleteEffect(row, tx_type, accounts, auto_split)
        /\ ev' = [Ev("del_tx", DeleteOutcome(row, auto_split, accounts), i) EXCEPT !.arg = tx_type]
        /\ transactions' = RemoveAt(transactions, i)
    /\ created' = NoCreated
    /\ EndRun
    /\ UNCHANGED <<today, standing_orders, auto_split, simple_vars, goal_vars, xfer, hist_vars>>

\* ------------------------------- Transactions page: delete a standing order
DeleteStandingOrder ==
    /\ AtForm
    /\ \E i \in 1..Len(standing_orders) :
        /\ standing_orders' = RemoveAt(standing_orders, i)
        /\ materialized' = RemoveAt(materialized, i)
        /\ ev' = Ev("del_so", "", i)
    /\ EndRun
    /\ UNCHANGED <<today, accounts, transactions, auto_split, created, simple_vars, goal_vars,
                   xfer, mem>>

\* the page was opened or rerun with no button of it clicked
RenderOnly ==
    /\ AtForm
    /\ ev' = Ev("render", "", 0)
    /\ EndRun
    /\ UNCHANGED <<today, accounts, transactions, standing_orders, auto_split,
                   created, simple_vars, goal_vars, xfer, hist_vars>>

\* ------------------------------------------------ Goals page: amount text
\* The contribution is typed as text; a text is a sequence of characters.
Digits == {"0", "1", "2", "3", "4", "5", "6", "7", "8", "9"}

DigitValue(c) ==
    CASE c = "0" -> 0 [] c = "1" -> 1 [] c = "2" -> 2 [] c = "3" -> 3 [] c = "4" -> 4
      [] c = "5" -> 5 [] c = "6" -> 6 [] c = "7" -> 7 [] c = "8" -> 8 [] c = "9" -> 9

\* str.replace(",", ".")
ReplaceComma(text) == [k \in 1..Len(text) |-> IF text[k] = "," THEN "." ELSE text[k]]

\* str.strip()
RECURSIVE Strip(_)
Strip(text) ==
    IF text = <<>> THEN text
    ELSE IF Head(text) = " " THEN Strip(Tail(text))
    ELSE IF text[Len(text)] = " " THEN Strip(SubSeq(text, 1, Len(text) - 1))
    ELSE text

RECURSIVE DigitsValue(_)
DigitsValue(ds) ==
    IF ds = <<>> THEN 0 ELSE 10 * DigitsValue(SubSeq(ds, 1, Len(ds) - 1)) + DigitValue(ds[Len(ds)])

RECURSIVE Pow10(_)
Pow10(n) == IF n = 0 THEN 1 ELSE 10 * Pow10(n - 1)

AllDigits(ds) == \A k \in 1..Len(ds) : ds[k] \in Digits

\* float(text) for decimal literals: [sign] digits [. digits] with at least one
\* digit; anything else raises ValueError (ok = FALSE)
ParseFloat(text) ==
    LET signed == text # <<>> /\ Head(text) \in {"+", "-"}
        body == IF signed THEN Tail(text) ELSE text
        dots == {k \in 1..Len(body) : body[k] = "."}
        dot == IF dots = {} THEN Len(body) + 1 ELSE CHOOSE k \in dots : TRUE
        whole == SubSeq(body, 1, dot - 1)
        frac == SubSeq(body, dot + 1, Len(body))
        ok == /\ Cardinality(dots) <= 1
              /\ AllDigits(whole) /\ AllDigits(frac)
              /\ Len(whole) + Len(frac) > 0
        magnitude == Q(DigitsValue(whole) * Pow10(Len(frac)) + DigitsValue(frac), Pow10(Len(frac)))
    IN IF ~ok THEN [ok |-> FALSE, amount |-> R(0)]
       ELSE [ok |-> TRUE,
             amount |-> IF signed /\ Head(text) = "-" THEN QSub(R(0), magnitude) ELSE magnitude]

\* float(add_amount_str.replace(",", ".").strip())
ParseAmount(text) == ParseFloat(Strip(ReplaceComma(text)))

\* ------------------------------------------------- streak / badge engine
\* f"[Goal] {goal_name}"
GoalTag(goal_name) == "[Goal] " \o goal_name

\* the text a note may carry around a goal tag
NoteAffixes == {"", StandingPrefix}

\* f"[Goal] {goal_name}" in note, over the notes that are an affix, or an
\* affix, a tag and whatever follows the tag
NoteMentions(note, goal_name) ==
    \E pre \in NoteAffixes, post \in NoteAffixes \cup GoalNames :
        note = pre \o GoalTag(goal_name) \o post

\* tx.get("goal") or "": no handler of the app writes a goal field
TxGoalField(tx) == ""

Attributed(tx, goal_name) ==
    TxGoalField(tx) = goal_name \/ NoteMentions(tx.note, goal_name)

RECURSIVE SumAmounts(_, _)
SumAmounts(txs, K) ==
    IF K = {} THEN R(0)
    ELSE LET k == CHOOSE k \in K : TRUE IN QAdd(txs[k].amount, SumAmounts(txs, K \ {k}))

\* date -> total of the transactions attributed to the goal on that date
goal_daily_totals(goal_name, txs) ==
    LET hits == {k \in 1..Len(txs) : Attributed(txs[k], goal_name)} IN
    [d \in {txs[k].timestamp : k \in hits} |->
        SumAmounts(txs, {k \in hits : txs[k].timestamp = d})]

\* the while loop: consecutive days in daily, walking back from current
RECURSIVE WalkBack(_, _)
WalkBack(days, current) ==
    IF current \in days THEN 1 + WalkBack(days, current - 1) ELSE 0

\* returns (streak, last_date); last_date is the last day the loop visited
compute_streak_for_goal(goal_name, txs, day) ==
    LET daily == goal_daily_totals(goal_name, txs) IN
    IF DOMAIN daily = {} THEN [streak |-> 0, last |-> NoDate]
    ELSE LET streak == WalkBack(DOMAIN daily, day) IN
         [streak |-> streak,
          last |-> IF streak > 0 THEN DateOf(day - streak + 1) ELSE NoDate]

\* datetime.now(): the day and the position of the run in the session
Now(day, seq) == [day |-> day, seq |-> seq]

award_badge_overwrite(b, badge_id, title, description, now) ==
    [id \in DOMAIN b \cup {badge_id} |->
        IF id = badge_id
        THEN [title |-> title, description |-> description, awarded_at |-> now]
        ELSE b[id]]

award_badge(b, badge_id, title, description, now) ==
    IF badge_id \notin DOMAIN b
    THEN [id \in DOMAIN b \cup {badge_id} |->
            IF id = badge_id
            THEN [title |-> title, description |-> description, awarded_at |-> now]
            ELSE b[id]]
    ELSE b

\* the goal records after update_goal_streaks_and_badges
UpdatedStreaks(txs, gs, day) ==
    [k \in 1..Len(gs) |->
        LET c == compute_streak_for_goal(gs[k].name, txs, day) IN
        IF c.streak # gs[k].streak_count
        THEN [gs[k] EXCEPT !.streak_count = c.streak, !.last_contribution_date = c.last]
        ELSE gs[k]]

\* the badge store after the for loop of update_goal_streaks_and_badges has
\* passed the first k goals
RECURSIVE StreakBadges(_, _, _, _, _, _)
StreakBadges(txs, gs, b, day, now, k) ==
    IF k = 0 THEN b
    ELSE LET prev == StreakBadges(txs, gs, b, day, now, k - 1)
             gname == gs[k].name
             streak == compute_streak_for_goal(gname, txs, day).streak
             b7 == IF streak >= StreakBadgeDays
                   THEN award_badge(prev, "streak_7_" \o gname, "7-Day Saver",
                                    "7-day streak for '" \o gname \o "'", now)
                   ELSE prev
         IN IF streak >= MonthBadgeDays
            THEN award_badge(b7, "streak_30_" \o gname, "1-Month Streak",
                             "30-day streak for '" \o gname \o "'", now)
            ELSE b7

IsCompleted(g) == QGe(g.current, g.target)

RECURSIVE CompletedBadges(_, _, _, _)
CompletedBadges(gs, b, now, k) ==
    IF k = 0 THEN b
    ELSE LET prev == CompletedBadges(gs, b, now, k - 1) IN
         IF IsCompleted(gs[k])
         THEN award_badge(prev, "completed_" \o gs[k].name, "Goal Achieved",
                          "You completed '" \o gs[k].name \o "'!", now)
         ELSE prev

check_goal_completion_badges(gs, b, now) ==
    LET completed == {k \in 1..Len(gs) : IsCompleted(gs[k])}
        b3 == IF Cardinality(completed) >= TrifectaGoals
              THEN award_badge(b, "three_goals", "Goal Trifecta", "Completed 3 goals", now)
              ELSE b
    IN CompletedBadges(gs, b3, now, Len(gs))

\* gather_nudges, part 3: the names of the goals that get a "missed_contribution"
\* nudge, in the order of the goal list.  days_since is counted from the date
\* compute_streak_for_goal returns.
MissedContribution(g, txs, day) ==
    LET last_date == compute_streak_for_goal(g.name, txs, day).last IN
    last_date = NoDate \/ day - last_date[1] >= InactivityDays

GoalInactivityNudges(txs, gs, day) ==
    LET nudged == SelectSeq(gs, LAMBDA g : MissedContribution(g, txs, day))
    IN [k \in 1..Len(nudged) |-> nudged[k].name]

\* ----------------------------------------------------------- Dashboard page
\* The page loads transactions, accounts and goals and shows them; on the way
\* show_notifications_and_badges_on_dashboard recomputes streaks and badges.
\* It does not evaluate standing orders.
DashboardPage ==
    /\ pc = "idle"
    /\ steps < MaxSteps
    /\ steps' = steps + 1
    /\ LET now == Now(today, steps + 1)
           gs == UpdatedStreaks(transactions, goals, today)
       IN /\ goals' = gs
          /\ badges' = check_goal_completion_badges(gs,
                StreakBadges(transactions, goals, badges, today, now, Len(goals)), now)
          /\ ev' = [Ev("dashboard", "", 0) EXCEPT
                        !.nudges = GoalInactivityNudges(transactions, gs, today)]
    /\ UNCHANGED <<today, accounts, transactions, standing_orders, auto_split, pc,
                   so_idx, executed_orders, tick0, created, simple_vars, contrib, xfer, hist_vars>>

\* ------------------------------------------------------------- Goals page
\* goals whose current is below their target, by position in goals
ActiveIdx(gs) == {k \in 1..Len(gs) : QLt(gs[k].current, gs[k].target)}

AchievedIdx(gs) == {k \in 1..Len(gs) : QGe(gs[k].current, gs[k].target)}

Last(K) == CHOOSE k \in K : \A j \in K : j <= k

\* "Manage Goal" is rendered once, after the loop over active_goals: i is the
\* position of the last active goal within active_goals, and the handlers
\* use it as goals[i]
ManageIndex(gs) == Cardinality(ActiveIdx(gs))

\* the options of an "Allocate from account" selectbox
AccountChoices(accs) == IF accs = <<>> THEN {NoAccountsAvailable} ELSE NamesOf(accs)

\* streak_count after a contribution on day
ContributionStreak(g, day) ==
    IF g.last_contribution_date = DateOf(day - 1) THEN g.streak_count + 1
    ELSE IF g.last_contribution_date = DateOf(day) THEN g.streak_count
    ELSE 1

\* (new_total / target) * 100 if target > 0 else 0
ProgressPct(new_total, target) ==
    IF QLt(R(0), target) THEN QMul(QDiv(new_total, target), R(100)) ELSE R(0)

IsIn(x, seq) == \E k \in 1..Len(seq) : seq[k] = x

NewMilestones_all_reached(g, new_total) ==
    SelectSeq(Milestones, LAMBDA m : QGe(ProgressPct(new_total, g.target), R(m)))

\* the thresholds reached by new_total that are not in milestones_hit yet
NewMilestones(g, new_total) ==
    SelectSeq(Milestones, LAMBDA m :
        QGe(ProgressPct(new_total, g.target), R(m)) /\ ~IsIn(m, g.milestones_hit))

HistoryIndex(history, day) ==
    IF \E k \in 1..Len(history) : history[k].date = day
    THEN CHOOSE k \in 1..Len(history) :
            history[k].date = day /\ \A j \in 1..(k - 1) : history[j].date # day
    ELSE 0

AddToHistory_always_append(history, day, add_amount) ==
    Append(history, [date |-> day, amount |-> add_amount])

\* one entry per day: add to today's entry, or append one
AddToHistory(history, day, add_amount) ==
    LET k == HistoryIndex(history, day) IN
    IF k # 0 THEN [history EXCEPT ![k].amount = QAdd(@, add_amount)]
    ELSE Append(history, [date |-> day, amount |-> add_amount])

Contribute_milestones_replaced(g, add_amount, day) ==
    LET new_total == QAdd(g.current, add_amount) IN
    [g EXCEPT !.current = new_total,
              !.streak_count = ContributionStreak(g, day),
              !.last_contribution_date = DateOf(day),
              !.milestones_hit = NewMilestones(g, new_total),
              !.history = AddToHistory(@, day, add_amount)]

\* the goal record after a contribution of add_amount on day
Contribute(g, add_amount, day) ==
    LET new_total == QAdd(g.current, add_amount) IN
    [g EXCEPT !.current = new_total,
              !.streak_count = ContributionStreak(g, day),
              !.last_contribution_date = DateOf(day),
              !.milestones_hit = @ \o NewMilestones(g, new_total),
              !.history = AddToHistory(@, day, add_amount)]

\* acc["allocated"] += add_amount on the first account of that name
AllocateFrom(accs, name, add_amount) ==
    LET k == IndexOf(accs, name) IN
    IF k = 0 THEN accs ELSE [accs EXCEPT ![k].allocated = QAdd(@, add_amount)]

\* acc["allocated"] = max(0, allocated - current_value) on the first account of that name
ReleaseAllocation(accs, name, current_value) ==
    LET k == IndexOf(accs, name) IN
    IF k = 0 THEN accs
    ELSE [accs EXCEPT ![k].allocated = QMax(R(0), QSub(@, current_value))]

GoalsIdle == pc = "idle" /\ steps < MaxSteps /\ steps' = steps + 1

GoalsFrame ==
    UNCHANGED <<today, transactions, standing_orders, auto_split, pc, so_idx,
                executed_orders, tick0, created, simple_vars, badges, xfer, hist_vars>>

\* "Add Goal" of the create form
CreateGoal ==
    /\ GoalsIdle
    /\ Len(goals) < MaxGoals
    /\ \E name \in GoalNames \cup {""}, account_choice \in AccountChoices(accounts),
          target \in TargetSet :
        goals' = Append(goals,
            [name |-> IF name # "" THEN name ELSE UntitledGoal,
             target |-> R(target), current |-> R(0), allocated_from |-> account_choice,
             streak_count |-> 0, last_contribution_date |-> NoDate,
             milestones_hit |-> <<>>, history |-> <<>>])
    /\ contrib' = [NoContrib EXCEPT !.run = [idx |-> Len(goals) + 1, n |-> 0]]
    /\ ev' = Ev("create_goal", "", Len(goals) + 1)
    /\ UNCHANGED accounts
    /\ GoalsFrame

\* the "+" button of Manage Goal
ContributeGoal ==
    /\ GoalsIdle
    /\ ActiveIdx(goals) # {}
    /\ \E text \in AmountTexts :
        LET parsed == ParseAmount(text)
            i == ManageIndex(goals)
        IN IF parsed.ok
           THEN /\ goals' = [goals EXCEPT ![i] = Contribute(@, parsed.amount, today)]
                /\ accounts' = AllocateFrom(accounts, goals[i].allocated_from, parsed.amount)
                /\ contrib' = [text |-> text, ok |-> TRUE, amount |-> parsed.amount,
                               new_milestones |->
                                  NewMilestones(goals[i], QAdd(goals[i].current, parsed.amount)),
                               run |-> IF contrib.run.idx = i /\ parsed.amount = R(30)
                                       THEN [idx |-> i, n |-> contrib.run.n + 1]
                                       ELSE NoRun]
                /\ ev' = Ev("contribute", "ok", i)
           ELSE /\ contrib' = [NoContrib EXCEPT !.text = text, !.run = contrib.run]
                /\ ev' = Ev("contribute", "invalid", i)
                /\ UNCHANGED <<goals, accounts>>
    /\ GoalsFrame

\* "Reset" of Manage Goal
ResetGoal ==
    /\ GoalsIdle
    /\ ActiveIdx(goals) # {}
    /\ LET i == ManageIndex(goals) IN
        /\ accounts' = ReleaseAllocation(accounts, goals[i].allocated_from, goals[i].current)
        /\ goals' = [goals EXCEPT ![i].current = R(0)]
        /\ ev' = Ev("reset_goal", "", i)
    /\ contrib' = NoContrib
    /\ GoalsFrame

\* "Delete" of Manage Goal
DeleteGoal ==
    /\ GoalsIdle
    /\ ActiveIdx(goals) # {}
    /\ LET i == ManageIndex(goals) IN
        /\ accounts' = ReleaseAllocation(accounts, goals[i].allocated_from, goals[i].current)
        /\ goals' = RemoveAt(goals, i)
        /\ ev' = Ev("delete_goal", "", i)
    /\ contrib' = NoContrib
    /\ GoalsFrame

\* "Save" of Manage Goal
SaveGoal ==
    /\ GoalsIdle
    /\ ActiveIdx(goals) # {}
    /\ \E edit_name \in GoalNames, edit_account \in AccountChoices(accounts),
          edit_target \in EditTargets :
        LET i == ManageIndex(goals) IN
        /\ goals' = [goals EXCEPT ![i].name = edit_name,
                                  ![i].allocated_from = edit_account,
                                  ![i].target = R(edit_target)]
        /\ ev' = Ev("save_goal", "", i)
    /\ contrib' = NoContrib
    /\ UNCHANGED accounts
    /\ GoalsFrame

\* goals.remove(g): the first record equal to g
FirstEqual(gs, g) == CHOOSE k \in 1..Len(gs) : gs[k] = g /\ \A j \in 1..(k - 1) : gs[j] # g

\* "Delete" under the achieved goals: rendered once, after the loop over
\* achieved_goals, for the last of them; no account is touched
DeleteAchievedGoal ==
    /\ GoalsIdle
    /\ AchievedIdx(goals) # {}
    /\ LET g == goals[Last(AchievedIdx(goals))] IN
        /\ goals' = RemoveAt(goals, FirstEqual(goals, g))
        /\ ev' = Ev("delete_achieved", "", FirstEqual(goals, g))
    /\ contrib' = NoContrib
    /\ UNCHANGED accounts
    /\ GoalsFrame

\* "Save" under the achieved goals
SaveAchievedGoal ==
    /\ GoalsIdle
    /\ AchievedIdx(goals) # {}
    /\ \E edit_name \in GoalNames, edit_account \in AccountChoices(accounts),
          edit_target \in EditTargets :
        LET k == Last(AchievedIdx(goals)) IN
        /\ goals' = [goals EXCEPT ![k].name = edit_name,
                                  ![k].target = R(edit_target),
                                  ![k].allocated_from = edit_account]
        /\ ev' = Ev("save_achieved", "", k)
    /\ contrib' = NoContrib
    /\ UNCHANGED accounts
    /\ GoalsFrame

\* datetime.now().date() moves on
NextDay ==
    /\ pc = "idle"
    /\ \E d \in GoalDaySteps : today + d <= MaxDay /\ today' = today + d
    /\ ev' = Ev("day", "", 0)
    /\ UNCHANGED <<accounts, transactions, standing_orders, auto_split, pc, steps,
                   so_idx, executed_orders, tick0, created, simple_vars, goal_vars, xfer, hist_vars>>

\* ------------------------------------------------------- the specification
AppInitial ==
    /\ today = 0
    /\ accounts = <<>>
    /\ transactions = <<>>
    /\ standing_orders = <<>>
    /\ auto_split = [enabled |-> FALSE, ratios |-> NoRatios]
    /\ pc = "idle"
    /\ steps = 0
    /\ so_idx = 0
    /\ executed_orders = FALSE
    /\ tick0 = NoTick
    /\ created = NoCreated
    /\ ev = Ev("init", "", 0)
    /\ goals = <<>>
    /\ badges = NoBadges
    /\ contrib = NoContrib
    /\ xfer = NoTransfer
    /\ mem = NoMem
    /\ materialized = <<>>

SimpleIdle ==
    /\ simple_pc = "off"
    /\ simple_tx = NoTx
    /\ simple_ret = NoRet
    /\ simple_before = <<>>

Init == AppInitial /\ SimpleIdle

Next ==
    \/ CreateAccount
    \/ SaveAutoSplit
    \/ AdvanceDay
    \/ TransactionsPageLoad
    \/ ExecuteStandingOrder
    \/ SaveTransaction
    \/ SaveStandingOrder
    \/ DeleteTransaction
    \/ DeleteStandingOrder
    \/ RenderOnly
    \/ DashboardPage

Spec == Init /\ [][Next]_vars

\* ------------------------- Transactions page: the delete handler, save by save
\* save_json opens the file for writing, which empties it, and then dumps the
\* data; load_json of a file that is empty or holds part of a dump returns its
\* default, the empty list.
TruncatedFile == <<>>

InDelete == pc \in {"del_open_tx", "del_dump_tx", "del_open_acc", "del_dump_acc"}

PersistFrame ==
    UNCHANGED <<today, standing_orders, auto_split, steps, so_idx, executed_orders,
                tick0, created, ev, simple_vars, goal_vars, xfer, materialized>>

\* the button handler up to transactions.pop(i): the reverted accounts and the
\* shortened log are in memory only
DeleteInMemory ==
    /\ AtForm
    /\ \E i \in 1..tick0.ntx, tx_type \in {"Income", "Expense"} :
        LET row == transactions[i] IN
        /\ mem' = [valid |-> TRUE,
                   accounts |-> DeleteEffect(row, tx_type, accounts, auto_split),
                   transactions |-> RemoveAt(transactions, i),
                   old_accounts |-> accounts, old_transactions |-> transactions]
        /\ ev' = [Ev("del_tx", DeleteOutcome(row, auto_split, accounts), i) EXCEPT !.arg = tx_type]
    /\ pc' = "del_open_tx"
    /\ created' = NoCreated
    /\ UNCHANGED <<today, accounts, transactions, standing_orders, auto_split, steps, so_idx,
                   executed_orders, tick0, simple_vars, goal_vars, xfer, materialized>>

\* save_transactions: open(TRANSACTIONS_FILE, "w")
OpenTransactionsFile ==
    /\ pc = "del_open_tx"
    /\ transactions' = TruncatedFile
    /\ pc' = "del_dump_tx"
    /\ UNCHANGED <<accounts, mem>>
    /\ PersistFrame

\* save_transactions: json.dump and close
DumpTransactionsFile ==
    /\ pc = "del_dump_tx"
    /\ transactions' = mem.transactions
    /\ pc' = "del_open_acc"
    /\ UNCHANGED <<accounts, mem>>
    /\ PersistFrame

\* save_accounts: open(ACCOUNTS_FILE, "w")
OpenAccountsFile ==
    /\ pc = "del_open_acc"
    /\ accounts' = TruncatedFile
    /\ pc' = "del_dump_acc"
    /\ UNCHANGED <<transactions, mem>>
    /\ PersistFrame

\* save_accounts: json.dump and close; the run ends
DumpAccountsFile ==
    /\ pc = "del_dump_acc"
    /\ accounts' = mem.accounts
    /\ EndRun
    /\ UNCHANGED <<today, transactions, standing_orders, auto_split, created, ev, simple_vars,
                   goal_vars, xfer, hist_vars>>

\* the process stops inside the handler: the files stay as they are
ProcessStops ==
    /\ InDelete
    /\ pc' = "stopped"
    /\ UNCHANGED <<accounts, transactions, mem>>
    /\ PersistFrame

NextPersist ==
    \/ CreateAccount
    \/ TransactionsPageLoad
    \/ SaveTransaction
    \/ DeleteInMemory
    \/ OpenTransactionsFile
    \/ DumpTransactionsFile
    \/ OpenAccountsFile
    \/ DumpAccountsFile
    \/ ProcessStops

SpecPersist == Init /\ [][NextPersist]_vars

\* ------------------------------------- Accounts page: edit, delete, transfer
AccountsIdle == pc = "idle" /\ steps < MaxSteps /\ steps' = steps + 1

AccountsFrame ==
    UNCHANGED <<today, transactions, standing_orders, auto_split, pc, so_idx,
                executed_orders, tick0, simple_vars, goal_vars, hist_vars>>

\* "Save" of Edit Accounts
EditAccount ==
    /\ AccountsIdle
    /\ \E i \in 1..Len(accounts), new_name \in AccountNames,
          new_balance \in EditBalances, new_alloc \in EditAllocations :
        /\ accounts' = [accounts EXCEPT ![i] =
                [name |-> new_name, balance |-> R(new_balance), allocated |-> R(new_alloc)]]
        /\ ev' = Ev("edit_account", "", i)
    /\ created' = NoCreated
    /\ xfer' = NoTransfer
    /\ AccountsFrame

\* "Delete" of Edit Accounts
DeleteAccount ==
    /\ AccountsIdle
    /\ \E i \in 1..Len(accounts) :
        /\ accounts' = RemoveAt(accounts, i)
        /\ ev' = Ev("delete_account", "", i)
    /\ created' = NoCreated
    /\ xfer' = NoTransfer
    /\ AccountsFrame

\* "Reset Allocations" of Edit Accounts
ResetAllocations ==
    /\ AccountsIdle
    /\ \E i \in 1..Len(accounts) :
        /\ accounts' = [accounts EXCEPT ![i].allocated = R(0)]
        /\ ev' = Ev("reset_allocations", "", i)
    /\ created' = NoCreated
    /\ xfer' = NoTransfer
    /\ AccountsFrame

\* the options of the From and To selectboxes; a selectbox without options
\* returns None
FromChoices(accs) == IF accs = <<>> THEN {NoAccount} ELSE NamesOf(accs)

ToChoices(accs, from_acc) ==
    IF NamesOf(accs) \ {from_acc} = {} THEN {NoAccount} ELSE NamesOf(accs) \ {from_acc}

\* what "Execute Transfer" does: "zero" when amount is not positive, "crash"
\* when next() finds no sender or no receiver (StopIteration, nothing saved),
\* "insufficient" or "ok"
TransferOutcome(accs, from_acc, to_acc, amount) ==
    IF ~QLt(R(0), amount) THEN "zero"
    ELSE IF IndexOf(accs, from_acc) = 0 \/ IndexOf(accs, to_acc) = 0 THEN "crash"
    ELSE IF QGe(accs[IndexOf(accs, from_acc)].balance, amount) THEN "ok"
    ELSE "insufficient"

TransferEffect_overdraw(accs, from_acc, to_acc, amount) ==
    IF TransferOutcome(accs, from_acc, to_acc, amount) \in {"ok", "insufficient"}
    THEN [accs EXCEPT ![IndexOf(accs, from_acc)].balance = QSub(@, amount),
                      ![IndexOf(accs, to_acc)].balance = QAdd(@, amount)]
    ELSE accs

TransferEffect(accs, from_acc, to_acc, amount) ==
    IF TransferOutcome(accs, from_acc, to_acc, amount) = "ok"
    THEN [accs EXCEPT ![IndexOf(accs, from_acc)].balance = QSub(@, amount),
                      ![IndexOf(accs, to_acc)].balance = QAdd(@, amount)]
    ELSE accs

\* "Execute Transfer" of the transfer form
Transfer ==
    /\ AccountsIdle
    /\ \E from_acc \in FromChoices(accounts), amount \in TransferAmounts :
        \E to_acc \in ToChoices(accounts, from_acc) :
            /\ accounts' = TransferEffect(accounts, from_acc, to_acc, R(amount))
            /\ xfer' = [from_acc |-> from_acc, to_acc |-> to_acc, amount |-> R(amount)]
            /\ ev' = Ev("transfer", TransferOutcome(accounts, from_acc, to_acc, R(amount)), 0)
    /\ created' = NoCreated
    /\ AccountsFrame

NextAccounts ==
    \/ CreateAccount
    \/ EditAccount
    \/ DeleteAccount
    \/ ResetAllocations
    \/ Transfer

SpecAccounts == Init /\ [][NextAccounts]_vars

\* ------------------------------------------- Goals page and Dashboard runs
\* SpecGoals starts from stores as the Accounts and Transactions pages leave
\* them: up to MaxAccounts accounts just created and either an empty log or
\* one goal-tagged Income a day over the last week, saved while no account
\* existed.
CreatedAccounts ==
    [name : AccountNames, balance : {R(b) : b \in InitialBalances}, allocated : {R(0)}]

CreatedAccountLists == UNION {[1..n -> CreatedAccounts] : n \in 0..MaxAccounts}

TaggedWeek(day) ==
    [k \in 1..StreakBadgeDays |->
        [type |-> "Income", amount |-> R(100), note |-> GoalTag("G"),
         timestamp |-> day - StreakBadgeDays + k, account |-> NoAccount]]

InitGoals ==
    /\ today = MaxDay - GoalDays
    /\ accounts \in CreatedAccountLists
    /\ transactions \in {<<>>, TaggedWeek(today)}
    /\ standing_orders = <<>>
    /\ auto_split = [enabled |-> FALSE, ratios |-> NoRatios]
    /\ pc = "idle"
    /\ steps = 0
    /\ so_idx = 0
    /\ executed_orders = FALSE
    /\ tick0 = NoTick
    /\ created = NoCreated
    /\ ev = Ev("init", "", 0)
    /\ goals = <<>>
    /\ badges = NoBadges
    /\ contrib = NoContrib
    /\ xfer = NoTransfer
    /\ mem = NoMem
    /\ materialized = <<>>
    /\ SimpleIdle

NextGoals ==
    \/ CreateGoal
    \/ ContributeGoal
    \/ ResetGoal
    \/ DeleteGoal
    \/ SaveGoal
    \/ DeleteAchievedGoal
    \/ SaveAchievedGoal
    \/ DashboardPage
    \/ NextDay

SpecGoals == InitGoals /\ [][NextGoals]_vars

\* --------------------------- auto-split over accounts edited and deleted
\* SpecSplit starts from up to MaxAccounts accounts just created and either no
\* standing order or one auto-split Income order saved for today; the Accounts
\* page saves the ratio table and renames or deletes accounts, the
\* Transactions page saves incomes and materializes the order.
AutoSplitOrder(day) ==
    NewOrder([tx_type |-> "Income", amount |-> R(100), use_auto |-> TRUE,
              selected_account |-> NoAccount, frequency |-> "Weekly", start |-> day])

InitSplit ==
    /\ today = 0
    /\ accounts \in CreatedAccountLists
    /\ transactions = <<>>
    /\ standing_orders \in {<<>>, <<AutoSplitOrder(today)>>}
    /\ auto_split = [enabled |-> FALSE, ratios |-> NoRatios]
    /\ pc = "idle"
    /\ steps = 0
    /\ so_idx = 0
    /\ executed_orders = FALSE
    /\ tick0 = NoTick
    /\ created = NoCreated
    /\ ev = Ev("init", "", 0)
    /\ goals = <<>>
    /\ badges = NoBadges
    /\ contrib = NoContrib
    /\ xfer = NoTransfer
    /\ mem = NoMem
    /\ materialized = [k \in 1..Len(standing_orders) |-> NoDate]
    /\ SimpleIdle

NextSplit ==
    \/ SaveAutoSplit
    \/ EditAccount
    \/ DeleteAccount
    \/ TransactionsPageLoad
    \/ ExecuteStandingOrder
    \/ SaveTransaction
    \/ RenderOnly

SpecSplit == InitSplit /\ [][NextSplit]_vars

\* the Goals page without its two Save (edit) buttons and without the Dashboard
NextAllocation ==
    \/ CreateGoal
    \/ ContributeGoal
    \/ ResetGoal
    \/ DeleteGoal
    \/ DeleteAchievedGoal
    \/ NextDay

SpecAllocation == InitGoals /\ [][NextAllocation]_vars

\* ------------------------------------------------------------ properties
Balances(accs) == [k \in 1..Len(accs) |-> accs[k].balance]

RECURSIVE SumBalances(_)
SumBalances(accs) ==
    IF accs = <<>> THEN R(0) ELSE QAdd(Head(accs).balance, SumBalances(Tail(accs)))

\* amt * r / S, exactly
Share(amt, r, S) == Q(amt.n * r, amt.d * S)

\* C3: a manual Save Transaction that is rejected (st.error: insufficient balance,
\* or auto-split ratios not set up) changes neither the accounts nor the log.
C3_RejectedSaveMutatesNothing ==
    [][(ev'.op = "save_tx" /\ ev'.outcome \in {"tx_expense_rejected", "tx_split_rejected"})
        => (accounts' = accounts /\ transactions' = transactions)]_vars

\* C4: deleting a single-account transaction reverts it by its own recorded type:
\* an Income is debited from its account, an Expense is credited to it, whatever
\* the Add Transaction form shows.
C4_DeleteRevertsByRecordedType ==
    [][(ev'.op = "del_tx"
          /\ transactions[ev'.idx].account # AutoSplitAccount
          /\ IndexOf(accounts, transactions[ev'.idx].account) # 0)
        => LET row == transactions[ev'.idx]
               k == IndexOf(accounts, row.account)
           IN accounts' = [accounts EXCEPT ![k].balance =
                  IF row.type = "Income" THEN QSub(@, row.amount) ELSE QAdd(@, row.amount)]]_vars

\* C5: deleting the transaction just created (no change to accounts or policy in
\* between), with the form showing the transaction's own type, restores every
\* balance to its value before the creation and removes exactly that record.
C5_DeleteRestoresBalances ==
    [][(ev'.op = "del_tx" /\ created.valid /\ created.idx = ev'.idx
          /\ ev'.arg = transactions[ev'.idx].type)
        => (/\ Balances(accounts') = Balances(created.before)
            /\ transactions' = RemoveAt(transactions, ev'.idx))]_vars

\* C6: an auto-split Income of amount amt (policy enabled, ratio sum S > 0), saved
\* by hand or materialized from a standing order, credits every account i exactly
\* amt * ratio_i / S: {X:30, Y:70} and 100 give +30 / +70; {X:30, Y:90} give +25 / +75.
C6_AutoSplitShares ==
    [][(/\ Len(transactions') = Len(transactions) + 1
        /\ transactions'[Len(transactions')].account = AutoSplitAccount
        /\ transactions'[Len(transactions')].type = "Income"
        /\ auto_split.enabled
        /\ TotalRatio(auto_split.ratios) > 0)
        => LET amt == transactions'[Len(transactions')].amount
               S == TotalRatio(auto_split.ratios)
               r(k) == RatioGet(auto_split.ratios, accounts[k].name)
           IN /\ Len(accounts') = Len(accounts)
              /\ \A k \in 1..Len(accounts) :
                    /\ accounts'[k] = [accounts[k] EXCEPT !.balance = QAdd(@, Share(amt, r(k), S))]
                    /\ (amt = R(100) /\ r(k) = 30 /\ S = 100) =>
                            accounts'[k].balance = QAdd(accounts[k].balance, R(30))
                    /\ (amt = R(100) /\ r(k) = 70 /\ S = 100) =>
                            accounts'[k].balance = QAdd(accounts[k].balance, R(70))
                    /\ (amt = R(100) /\ r(k) = 30 /\ S = 120) =>
                            accounts'[k].balance = QAdd(accounts[k].balance, R(25))
                    /\ (amt = R(100) /\ r(k) = 90 /\ S = 120) =>
                            accounts'[k].balance = QAdd(accounts[k].balance, R(75))]_vars

\* an income of 100 has just been split over {X:30, Y:90}: 50 + 25 and 50 + 75
C6_Witness ==
    /\ ev.op = "save_tx" /\ ev.outcome = "tx_income_split"
    /\ DOMAIN auto_split.ratios = {"X", "Y"}
    /\ auto_split.ratios["X"] = 30 /\ auto_split.ratios["Y"] = 90
    /\ Len(accounts) = 2
    /\ accounts[1].name = "X" /\ accounts[1].balance = R(75)
    /\ accounts[2].name = "Y" /\ accounts[2].balance = R(125)

C8_OneTransactionPerDueOrder ==
    pc = "run" =>
        /\ so_idx \in 1..(Len(tick0.orders) + 1)
        /\ Len(standing_orders) = Len(tick0.orders)
        /\ Len(transactions) = tick0.ntx
              + Cardinality({k \in 1..(so_idx - 1) : tick0.orders[k].next_execution <= today})

\* the tick is over; an order overdue by more than a period gave one record,
\* an order not yet due gave none
C8_Witness ==
    /\ AtForm
    /\ Len(tick0.orders) = 2
    /\ \E k \in 1..2 : tick0.orders[k].next_execution + FreqDays(tick0.orders[k]) <= today
    /\ \E k \in 1..2 : tick0.orders[k].next_execution > today
    /\ Len(transactions) = tick0.ntx + 1

\* C9: a due order's next_execution is advanced from its previous value by 7
\* (Weekly) or 30 (Monthly) days.
C9_AdvanceFromPreviousDate ==
    [][(ev'.op = "so" /\ ev'.outcome # "so_not_due")
        => standing_orders'[so_idx].next_execution =
              standing_orders[so_idx].next_execution
                + (IF standing_orders[so_idx].frequency = "Weekly" THEN 7 ELSE 30)]_vars

\* C10: a due Expense order whose account holds less than its amount leaves the
\* accounts unchanged, still logs the Expense, still advances its schedule, and
\* the loop goes on to the next order.
C10_InsufficientOrderStillLogged ==
    [][(/\ pc = "run" /\ so_idx <= Len(standing_orders)
        /\ standing_orders[so_idx].next_execution <= today
        /\ standing_orders[so_idx].type = "Expense"
        /\ IndexOf(accounts, standing_orders[so_idx].account) # 0
        /\ QLt(accounts[IndexOf(accounts, standing_orders[so_idx].account)].balance,
               standing_orders[so_idx].amount))
        => LET order == standing_orders[so_idx] IN
           /\ accounts' = accounts
           /\ transactions' = Append(transactions,
                [type |-> "Expense", amount |-> order.amount, note |-> StandingPrefix,
                 timestamp |-> today, account |-> order.account])
           /\ standing_orders'[so_idx].next_execution > today
           /\ standing_orders'[so_idx].next_execution > order.next_execution
           /\ \A j \in 1..Len(standing_orders) :
                j # so_idx => standing_orders'[j] = standing_orders[j]
           /\ so_idx' = so_idx + 1
           /\ pc' = "run"]_vars

\* the first of two due orders was an uncovered Expense; the second is next
C10_Witness ==
    /\ pc = "run"
    /\ ev = Ev("so", "so_expense_insufficient", 1)
    /\ so_idx = 2
    /\ Len(standing_orders) = 2
    /\ standing_orders[2].next_execution <= today
    /\ Len(transactions) = tick0.ntx + 1

\* C11: no page reads or shows the accounts or the ledger while a standing
\* order with next_execution <= today is still to be materialized: every run of
\* the Dashboard or of the Accounts page starts with no order due.
C11_StandingOrdersBeforeAnyRead ==
    [][(ev'.op \in {"dashboard", "create_account", "save_auto_split"})
        => DueCount(standing_orders, today) = 0]_vars

\* C26: the log only changes by one record appended at its end (a manual
\* save, or the materialization of a due standing order) or by the removal of
\* exactly the record whose bin was clicked; the records that stay keep their
\* fields and their order.
C26_LedgerAppendOnly ==
    [][/\ ev'.op = "save_tx" =>
            Len(transactions') = Len(transactions) + 1
       /\ (ev'.op = "so" /\ ev'.outcome # "so_not_due") =>
            Len(transactions') = Len(transactions) + 1
       /\ ev'.op = "del_tx" =>
            transactions' = RemoveAt(transactions, ev'.idx)
       /\ ev'.op # "del_tx" =>
            /\ Len(transactions') \in {Len(transactions), Len(transactions) + 1}
            /\ SubSeq(transactions', 1, Len(transactions)) = transactions
       /\ (ev'.op \notin {"save_tx", "so", "del_tx"} \/ ev'.outcome = "so_not_due") =>
            transactions' = transactions]_vars

\* of a manual record and a later record of a standing order, the manual one has
\* been deleted: the standing order's record is what is left
C26_Witness ==
    /\ ev.op = "del_tx" /\ ev.idx = 1
    /\ Len(transactions) = 1
    /\ transactions[1].note = StandingPrefix

\* C27: no account ever has a negative balance, whatever accounts have been
\* created and whatever transactions and standing orders have been saved,
\* materialized and deleted.
C27_BalancesNonNegative ==
    \A k \in 1..Len(accounts) : QGe(accounts[k].balance, R(0))

\* C29: an auto-split Income that is applied (policy enabled, ratio sum > 0),
\* saved by hand or materialized from a standing order, raises the sum of all
\* balances by exactly its amount, whatever the ratio table and whichever
\* accounts (of distinct names) exist at that moment.
C29_AutoSplitConservesMoney ==
    [][(/\ Len(transactions') = Len(transactions) + 1
        /\ transactions'[Len(transactions')].account = AutoSplitAccount
        /\ transactions'[Len(transactions')].type = "Income"
        /\ auto_split.enabled
        /\ TotalRatio(auto_split.ratios) > 0
        /\ \A a, b \in 1..Len(accounts) : accounts[a].name = accounts[b].name => a = b)
        => SumBalances(accounts') =
              QAdd(SumBalances(accounts), transactions'[Len(transactions')].amount)]_vars

ManagedGoal(gs) == Last(ActiveIdx(gs))

HistoryDates(g) == {g.history[k].date : k \in 1..Len(g.history)}

\* C12: a contribution of a valid amount a to goal G adds a to G.current and to
\* the allocated of the account G.allocated_from names, and leaves every other
\* goal and every other account as it was, whatever the mix and order of
\* active and achieved goals.
C12_ContributionReachesItsGoal ==
    [][(ev'.op = "contribute" /\ ev'.outcome = "ok" /\ QLt(R(0), contrib'.amount))
        => LET t == ManagedGoal(goals)
               j == IndexOf(accounts, goals[t].allocated_from)
           IN /\ Len(goals') = Len(goals)
              /\ goals'[t].current = QAdd(goals[t].current, contrib'.amount)
              /\ \A k \in 1..Len(goals) : k # t => goals'[k] = goals[k]
              /\ accounts' = IF j = 0 THEN accounts
                             ELSE [accounts EXCEPT ![j].allocated = QAdd(@, contrib'.amount)]]_vars

\* C13: a contribution whose text does not parse, or parses to zero or to a
\* negative number, changes no goal and no account.
C13_InvalidContributionRejected ==
    [][(ev'.op = "contribute" /\ (~contrib'.ok \/ ~QLt(R(0), contrib'.amount)))
        => (goals' = goals /\ accounts' = accounts)]_vars

\* C14: a goal contributed to today has, as its stored streak_count, the number
\* of consecutive days up to today on which it received a contribution (3 after
\* D-2, D-1, D; 1 after D-2, D), also after the Dashboard has recomputed streaks.
C14_StreakCountsContributionDays ==
    \A k \in 1..Len(goals) :
        (/\ today \in HistoryDates(goals[k])
         /\ \A a \in 1..Len(goals[k].history) : QLt(R(0), goals[k].history[a].amount))
        => goals[k].streak_count = WalkBack(HistoryDates(goals[k]), today)

\* C15 as stated: of three contributions of 30 in a row to a new goal of target
\* 100, the first reports milestone 25, the second none, the third 50 and 75.
C15_MilestonesFiftyOnThird ==
    [][(ev'.op = "contribute" /\ ev'.outcome = "ok" /\ contrib'.run.n \in 1..3
          /\ goals[contrib'.run.idx].target = R(100))
        => contrib'.new_milestones =
              CASE contrib'.run.n = 1 -> <<25>>
                [] contrib'.run.n = 2 -> <<>>
                [] contrib'.run.n = 3 -> <<50, 75>>]_vars

\* C15 amended: the first contribution reports 25, the second (total 60) reports
\* 50, the third (total 90) reports 75; milestones_hit grows by what is reported.
C15_MilestonesAsCrossed ==
    [][(ev'.op = "contribute" /\ ev'.outcome = "ok" /\ contrib'.run.n \in 1..3
          /\ goals[contrib'.run.idx].target = R(100))
        => LET i == contrib'.run.idx IN
           /\ contrib'.new_milestones =
                CASE contrib'.run.n = 1 -> <<25>>
                  [] contrib'.run.n = 2 -> <<50>>
                  [] contrib'.run.n = 3 -> <<75>>
           /\ goals'[i].milestones_hit = goals[i].milestones_hit \o contrib'.new_milestones
           /\ goals'[i].current = R(30 * contrib'.run.n)]_vars

\* the third contribution of 30 has just brought a new goal to 90 of 100
C15_Witness ==
    /\ ev.op = "contribute" /\ ev.outcome = "ok"
    /\ contrib.run.n = 3
    /\ goals[contrib.run.idx].current = R(90)
    /\ goals[contrib.run.idx].milestones_hit = <<25, 50, 75>>
    /\ contrib.new_milestones = <<75>>

\* C16: a goal's history never has two entries of the same date: a contribution
\* on a date that has an entry adds its amount to that entry, one on a new date
\* appends exactly one entry at the end.
C16_OneHistoryEntryPerDay ==
    [][/\ \A k \in 1..Len(goals') :
            \A a, b \in 1..Len(goals'[k].history) :
                goals'[k].history[a].date = goals'[k].history[b].date => a = b
       /\ (ev'.op = "contribute" /\ ev'.outcome = "ok") =>
            LET i == ev'.idx
                h == goals[i].history
                h2 == goals'[i].history
            IN IF today \in HistoryDates(goals[i])
               THEN /\ Len(h2) = Len(h)
                    /\ \A a \in 1..Len(h) :
                        h2[a] = IF h[a].date = today
                                THEN [h[a] EXCEPT !.amount = QAdd(@, contrib'.amount)]
                                ELSE h[a]
               ELSE h2 = Append(h, [date |-> today, amount |-> contrib'.amount])]_vars

\* two contributions on one day sit in one entry, a later day has its own
C16_Witness ==
    /\ ev.op = "contribute" /\ ev.outcome = "ok"
    /\ \E k \in 1..Len(goals) :
        /\ Len(goals[k].history) = 2
        /\ goals[k].history[1].amount = R(60)
        /\ goals[k].history[1].date < today
        /\ goals[k].history[2] = [date |-> today, amount |-> R(30)]

\* C17: a badge once in the store stays there with the same title, description
\* and awarded_at, whatever is evaluated, edited, reset or deleted later.
C17_BadgesWriteOnce ==
    [][\A id \in DOMAIN badges : id \in DOMAIN badges' /\ badges'[id] = badges[id]]_vars

\* the Dashboard has just been evaluated again with goal G still on a streak of
\* 7 days or more; its badge is from an earlier evaluation
C17_Witness ==
    /\ ev.op = "dashboard"
    /\ \E k \in 1..Len(goals) : goals[k].name = "G" /\ goals[k].streak_count >= StreakBadgeDays
    /\ "streak_7_G" \in DOMAIN badges
    /\ badges["streak_7_G"].awarded_at.seq < steps

\* C18: deleting a goal G, active or achieved, lowers the allocated of the
\* account G.allocated_from names by G.current, not below 0, and removes G and
\* nothing else from the goal list.
C18_DeleteReleasesAllocation ==
    [][(ev'.op \in {"delete_goal", "delete_achieved"})
        => LET t == IF ev'.op = "delete_goal" THEN ManagedGoal(goals)
                    ELSE Last(AchievedIdx(goals))
           IN /\ accounts' = ReleaseAllocation(accounts, goals[t].allocated_from,
                                               goals[t].current)
              /\ \E k \in 1..Len(goals) :
                    goals[k] = goals[t] /\ goals' = RemoveAt(goals, k)]_vars

\* C22: no account ever has a negative allocated amount, whatever contributions,
\* goal resets and goal deletions have been made.
C22_AllocatedNonNegative ==
    \A k \in 1..Len(accounts) : QGe(accounts[k].allocated, R(0))

\* C23: Reset on goal G sets G.current to 0 and lowers the allocated of the
\* account G.allocated_from names by G's former current, not below 0; G's
\* history, milestones, streak, last contribution date and target, every
\* balance and every other goal stay as they were.
C23_ResetFrame ==
    [][(ev'.op = "reset_goal")
        => LET t == ManagedGoal(goals)
               j == IndexOf(accounts, goals[t].allocated_from)
           IN /\ goals' = [goals EXCEPT ![t].current = R(0)]
              /\ accounts' = IF j = 0 THEN accounts
                             ELSE [accounts EXCEPT ![j].allocated =
                                      QMax(R(0), QSub(@, goals[t].current))]]_vars

NoRepeats(seq) == \A a, b \in 1..Len(seq) : seq[a] = seq[b] => a = b

\* C24: a goal's milestones_hit only grows: every step other than a delete keeps
\* each goal's recorded milestones as a prefix of its new ones, a delete removes
\* one goal and leaves the others' milestones alone, and a contribution reports
\* as newly crossed only thresholds of {25, 50, 75, 100} that the goal had not
\* recorded yet, so that none is reported twice.
C24_MilestonesOnlyGrow ==
    [][/\ ev'.op \notin {"delete_goal", "delete_achieved"} =>
            /\ Len(goals') >= Len(goals)
            /\ \A k \in 1..Len(goals) :
                LET before == goals[k].milestones_hit
                    after == goals'[k].milestones_hit
                IN Len(after) >= Len(before) /\ SubSeq(after, 1, Len(before)) = before
       /\ ev'.op \in {"delete_goal", "delete_achieved"} =>
            \E i \in 1..Len(goals) : goals' = RemoveAt(goals, i)
       /\ (ev'.op = "contribute" /\ ev'.outcome = "ok") =>
            LET i == ev'.idx
                new == contrib'.new_milestones
            IN /\ \A a \in 1..Len(new) :
                    IsIn(new[a], Milestones) /\ ~IsIn(new[a], goals[i].milestones_hit)
               /\ goals'[i].milestones_hit = goals[i].milestones_hit \o new
       /\ \A k \in 1..Len(goals') : NoRepeats(goals'[k].milestones_hit)]_vars

\* a goal that had reached 100% has had its target raised to 200 and has been
\* contributed to again: at 65% no milestone is reported a second time
C24_Witness ==
    /\ ev.op = "contribute" /\ ev.outcome = "ok"
    /\ goals[ev.idx].target = R(200)
    /\ goals[ev.idx].current = R(130)
    /\ goals[ev.idx].milestones_hit = <<25, 50, 75, 100>>
    /\ contrib.new_milestones = <<>>

\* the dates of the transactions attributed to a goal name
AttributedDates(goal_name, txs) == DOMAIN goal_daily_totals(goal_name, txs)

\* C25: the Dashboard shows the "missed_contribution" nudge for goal G exactly
\* when no transaction is attributed to G or the latest one is 7 days or more
\* before today; in particular not when one is attributed to G today.
C25_NudgeIffInactiveAWeek ==
    ev.op = "dashboard" =>
        \A k \in 1..Len(goals) :
            LET dates == AttributedDates(goals[k].name, transactions) IN
            IsIn(goals[k].name, ev.nudges)
                <=> (dates = {} \/ \A d \in dates : today - d >= InactivityDays)

RECURSIVE SumCurrent(_, _)
SumCurrent(gs, name) ==
    IF gs = <<>> THEN R(0)
    ELSE QAdd(IF Head(gs).allocated_from = name THEN Head(gs).current ELSE R(0),
              SumCurrent(Tail(gs), name))

\* C28: as long as goals are only created, contributed to, reset and deleted,
\* the allocated of an account (the first of its name) is the sum of current
\* over the goals that allocate from it.
C28_AllocatedIsSumOfCurrent ==
    \A k \in 1..Len(accounts) :
        k = IndexOf(accounts, accounts[k].name)
            => accounts[k].allocated = SumCurrent(goals, accounts[k].name)

\* ---------------------------------------------- properties: Accounts page
\* C19: a transfer succeeds only when amount > 0 and the balance of the source
\* covers it; a successful transfer debits the source and credits the
\* destination by the amount, so the sum of the balances is the same; any other
\* transfer changes no balance; allocated amounts never change.
C19_TransferConservesBalances ==
    [][(ev'.op = "transfer")
        => LET f == IndexOf(accounts, xfer'.from_acc)
               t == IndexOf(accounts, xfer'.to_acc)
               a == xfer'.amount
           IN /\ Len(accounts') = Len(accounts)
              /\ \A k \in 1..Len(accounts) :
                    /\ accounts'[k].allocated = accounts[k].allocated
                    /\ accounts'[k].name = accounts[k].name
              /\ IF ev'.outcome = "ok"
                 THEN /\ QLt(R(0), a)
                      /\ f # 0 /\ t # 0 /\ f # t
                      /\ QGe(accounts[f].balance, a)
                      /\ accounts' = [accounts EXCEPT ![f].balance = QSub(@, a),
                                                      ![t].balance = QAdd(@, a)]
                      /\ SumBalances(accounts') = SumBalances(accounts)
                 ELSE accounts' = accounts
              /\ (QLt(R(0), a) /\ f # 0 /\ t # 0 /\ QGe(accounts[f].balance, a))
                    => ev'.outcome = "ok"]_vars

\* 50 has just been moved out of an account that held exactly 50, while an
\* account carries an allocation
C19_Witness ==
    /\ ev.op = "transfer" /\ ev.outcome = "ok"
    /\ xfer.amount = R(50)
    /\ accounts[IndexOf(accounts, xfer.from_acc)].balance = R(0)
    /\ QGe(accounts[IndexOf(accounts, xfer.to_acc)].balance, R(50))
    /\ \E k \in 1..Len(accounts) : accounts[k].allocated = R(10)

\* C20: no two accounts have the same name, in any reachable state.
C20_AccountNamesUnique ==
    \A a, b \in 1..Len(accounts) : accounts[a].name = accounts[b].name => a = b

\* ------------------------------------------- properties: persistence
\* C21: if the process stops anywhere inside the delete handler, the two files
\* hold either the log and the accounts as they were before the delete, or the
\* log without the record and the reverted accounts.
C21_DeleteAtomicOnDisk ==
    pc = "stopped" =>
        \/ accounts = mem.old_accounts /\ transactions = mem.old_transactions
        \/ accounts = mem.accounts /\ transactions = mem.transactions

\* ------------------------------------------------ apply / revert harness
\* The two helpers are pure functions of (tx, accounts); SpecSimple draws their
\* inputs from bounded sets and applies them in order.
SimpleBalances == {0, 50, 100}
SimpleAllocated == {0, 10}
SimpleAmounts == {50, 100}
SimpleAccountRecords ==
    [name : AccountNames, balance : {R(b) : b \in SimpleBalances},
     allocated : {R(a) : a \in SimpleAllocated}]
SimpleAccountLists ==
    UNION {[1..n -> SimpleAccountRecords] : n \in 0..MaxAccounts}
SimpleTxs ==
    [type : {"Income", "Expense"}, amount : {R(a) : a \in SimpleAmounts},
     account : AccountNames \cup {"Z"}]

InitSimple ==
    /\ today = 0
    /\ accounts \in SimpleAccountLists
    /\ transactions = <<>>
    /\ standing_orders = <<>>
    /\ auto_split = [enabled |-> FALSE, ratios |-> NoRatios]
    /\ pc = "simple"
    /\ steps = 0
    /\ so_idx = 0
    /\ executed_orders = FALSE
    /\ tick0 = NoTick
    /\ created = NoCreated
    /\ ev = Ev("init", "", 0)
    /\ goals = <<>>
    /\ badges = NoBadges
    /\ contrib = NoContrib
    /\ xfer = NoTransfer
    /\ mem = NoMem
    /\ materialized = <<>>
    /\ simple_pc = "start"
    /\ simple_tx \in SimpleTxs
    /\ simple_ret = NoRet
    /\ simple_before = <<>>

SimpleApply ==
    /\ simple_pc = "start"
    /\ LET r == apply_transaction_simple(simple_tx, accounts) IN
        /\ accounts' = r.accounts
        /\ simple_ret' = [ok |-> r.ok, msg |-> r.msg]
    /\ simple_before' = accounts
    /\ simple_pc' = "applied"
    /\ UNCHANGED <<today, transactions, standing_orders, auto_split, pc, steps,
                   so_idx, executed_orders, tick0, created, ev, simple_tx, goal_vars, xfer, hist_vars>>

SimpleRevert ==
    /\ simple_pc = "applied"
    /\ LET r == revert_transaction_simple(simple_tx, accounts) IN
        /\ accounts' = r.accounts
        /\ simple_ret' = [ok |-> r.ok, msg |-> r.msg]
    /\ simple_pc' = "reverted"
    /\ UNCHANGED <<today, transactions, standing_orders, auto_split, pc, steps,
                   so_idx, executed_orders, tick0, created, ev, simple_tx, simple_before, goal_vars, xfer, hist_vars>>

NextSimple == SimpleApply \/ SimpleRevert

SpecSimple == InitSimple /\ [][NextSimple]_vars

C2_ExpenseIffInsufficient ==
    (simple_pc = "applied" /\ simple_tx.type = "Expense"
        /\ IndexOf(simple_before, simple_tx.account) # 0) =>
    LET k == IndexOf(simple_before, simple_tx.account)
        B == simple_before[k].balance
    IN /\ (~simple_ret.ok) <=> QLt(B, simple_tx.amount)
       /\ (~simple_ret.ok) => (accounts = simple_before /\ simple_ret.msg = "insufficient")
       /\ simple_ret.ok =>
            accounts = [simple_before EXCEPT ![k].balance = QSub(B, simple_tx.amount)]

C2_WitnessRejected ==
    /\ simple_pc = "applied"
    /\ simple_tx.type = "Expense"
    /\ IndexOf(simple_before, simple_tx.account) # 0
    /\ ~simple_ret.ok
    /\ QLt(simple_before[IndexOf(simple_before, simple_tx.account)].balance, simple_tx.amount)

====
